---- MODULE Spec2Model ----
(***************************************************************************)
(* Model of AiScripts/gemini_server.py: the MCP tool ask_gemini(prompt).   *)
(*                                                                         *)
(* The host may run several invocations of the tool at once (one per       *)
(* slot).  An optional Python value (None or a value) is modelled as a set *)
(* with at most one element: {} is None, {v} is v.                         *)
(***************************************************************************)
EXTENDS Integers, Sequences, FiniteSets, TLC

\* ------------------------------------------------------------------ bounds
\* Number of invocations of the tool that the host starts in one behaviour.
MaxCalls == 3

\* Host threads that may each be inside ask_gemini.
Slots == {"t1", "t2"}

\* Prompts the caller passes.
Prompts == {"2+2?", "Summarize: hi"}

\* States of the environment variable GEMINI_API_KEY: unset, empty, two keys.
EnvValues == {{}, {""}, {"k1"}, {"k2"}}

\* Texts the provider's response may carry.
Texts == {"4", "Error: quota"}

\* Faults a provider step may raise: cls is the Python class, desc is str(e).
Faults ==
    { [cls |-> "TimeoutError",      desc |-> "deadline exceeded"],
      [cls |-> "ValueError",        desc |-> "blocked"],
      [cls |-> "KeyboardInterrupt", desc |-> ""] }

\* ------------------------------------------------------- program constants
\* line 20: the string returned when the key is missing.
MissingKeyMsg_Short == "Error: GEMINI_API_KEY not found."
MissingKeyMsg == "Error: GEMINI_API_KEY environment variable not found."

\* line 34: the prefix of the string returned for a caught fault.
ErrPrefix_NoApi == "Gemini Error: "
ErrPrefix == "Gemini API Error: "

\* line 28: the model identifier handed to genai.GenerativeModel.
ModelName_Docstring == "gemini-1.5-pro"
ModelName == "gemini-2.0-flash"

\* line 33: the classes `except Exception` catches.  KeyboardInterrupt,
\* SystemExit and GeneratorExit derive from BaseException only.
ExceptionClasses == {"TimeoutError", "ValueError"}

IsException_OnlyTimeout(f) == f.cls = "TimeoutError"
IsException(f) == f.cls \in ExceptionClasses

\* ------------------------------------------------------------------- state
VARIABLES
    environ,   \* os.environ["GEMINI_API_KEY"]: {} when unset, else {value}
    config,    \* the api key genai.configure stored process-wide: {} or {key}
    inv,       \* inv[s]: the invocation running (or last run) in slot s
    ncalls     \* invocations started so far

vars == <<environ, config, inv, ncalls>>

The(S) == CHOOSE x \in S : TRUE

\* A slot in which ask_gemini has not been called yet.
Fresh ==
    [ id       |-> 0,
      pc       |-> "idle",
      prompt   |-> "",
      api_key  |-> {},     \* local api_key (line 18)
      model    |-> {},     \* local model (line 28): the identifier it was built with
      response |-> {},     \* local response (line 30)
      req      |-> {},     \* the generate-content request the provider received
      fault    |-> {},     \* the fault a provider step raised: [cls, desc, at]
      calls    |-> 0,      \* provider steps this invocation has entered
      gen      |-> 0,      \* generate_content requests this invocation issued
      ret      |-> {},     \* the string returned to the caller
      raised   |-> {} ]    \* the fault that left ask_gemini uncaught

Running(s) == inv[s].pc \notin {"idle", "done"}

Init ==
    /\ environ \in EnvValues
    /\ config = {}
    /\ inv = [s \in Slots |-> Fresh]
    /\ ncalls = 0

\* --------------------------------------------------------------- helpers
\* line 19: `not api_key` is true of None and of the empty string.
Falsy_NoneOnly(k) == k = {}
Falsy(k) == k = {} \/ k = {""}

\* line 24: the key genai.configure(api_key=api_key) stores process-wide,
\* given the stored one and the argument.
ConfiguredKey_Once(cfg, k) == IF cfg = {} THEN k ELSE cfg
ConfiguredKey(cfg, k) == k

\* lines 28-30: GenerativeModel(...) and generate_content(prompt) are given no
\* key, so the request carries the key that is configured process-wide when
\* generate_content runs.
RequestKey(cfg) == cfg

\* line 30: what generate_content may return: a response whose .text reads as
\* a text, or one whose .text raises (a blocked or malformed response).
Responses ==
    { [text |-> {t}, error |-> {}] : t \in Texts } \cup
    { [text |-> {}, error |-> {f}] : f \in {g \in Faults : g.cls = "ValueError"} }

\* line 34: f"Gemini API Error: {str(e)}"
ErrorString_Bare(f) == f.desc
ErrorString(f) == ErrPrefix \o f.desc

\* line 31: the value returned on success.
ResultText_Tagged(resp) == "Gemini: " \o The(resp.text)
ResultText(resp) == The(resp.text)

\* line 22: fault f raised by the provider step `at` inside the try block:
\* control leaves the step and reaches the except clause of line 33.
Raise_RetryOnce(r, f, at) ==
    IF at = "generate" /\ r.gen < 2
    THEN [r EXCEPT !.pc = "L30"]
    ELSE [r EXCEPT !.fault = {[cls |-> f.cls, desc |-> f.desc, at |-> at]},
                   !.pc = "L33"]
Raise(r, f, at) ==
    [r EXCEPT !.fault = {[cls |-> f.cls, desc |-> f.desc, at |-> at]},
              !.pc = "L33"]

\* --------------------------------------------------------------- actions
\* The host calls ask_gemini(p) in slot s.
Call(s, p) ==
    /\ ~Running(s)
    /\ ncalls < MaxCalls
    /\ ncalls' = ncalls + 1
    /\ inv' = [inv EXCEPT ![s] = [Fresh EXCEPT !.id = ncalls + 1,
                                               !.pc = "L18",
                                               !.prompt = p]]
    /\ UNCHANGED <<environ, config>>

\* line 18: api_key = os.environ.get("GEMINI_API_KEY")
ReadEnv(s) ==
    /\ inv[s].pc = "L18"
    /\ inv' = [inv EXCEPT ![s].api_key = environ, ![s].pc = "L19"]
    /\ UNCHANGED <<environ, config, ncalls>>

\* lines 19-20: if not api_key: return "Error: ..."
CheckKey(s) ==
    /\ inv[s].pc = "L19"
    /\ inv' = [inv EXCEPT ![s] =
                 IF Falsy(inv[s].api_key)
                 THEN [@ EXCEPT !.ret = {MissingKeyMsg}, !.pc = "done"]
                 ELSE [@ EXCEPT !.pc = "L24"]]
    /\ UNCHANGED <<environ, config, ncalls>>

\* line 24: genai.configure(api_key=api_key)
Configure(s) ==
    /\ inv[s].pc = "L24"
    /\ LET r == [inv[s] EXCEPT !.calls = @ + 1] IN
       \/ /\ config' = ConfiguredKey(config, r.api_key)
          /\ inv' = [inv EXCEPT ![s] = [r EXCEPT !.pc = "L28"]]
       \/ /\ \E f \in Faults : inv' = [inv EXCEPT ![s] = Raise(r, f, "configure")]
          /\ config' = config
    /\ UNCHANGED <<environ, ncalls>>

\* line 28: model = genai.GenerativeModel("gemini-2.0-flash")
Construct(s) ==
    /\ inv[s].pc = "L28"
    /\ LET r == [inv[s] EXCEPT !.calls = @ + 1] IN
       \/ inv' = [inv EXCEPT ![s] = [r EXCEPT !.model = {ModelName}, !.pc = "L30"]]
       \/ \E f \in Faults : inv' = [inv EXCEPT ![s] = Raise(r, f, "construct")]
    /\ UNCHANGED <<environ, config, ncalls>>

\* line 30: response = model.generate_content(prompt)
Generate(s) ==
    /\ inv[s].pc = "L30"
    /\ LET r == [inv[s] EXCEPT
                   !.calls = @ + 1,
                   !.gen = @ + 1,
                   !.req = {[key    |-> RequestKey(config),
                             model  |-> The(inv[s].model),
                             prompt |-> inv[s].prompt]}] IN
       \/ \E resp \in Responses :
             inv' = [inv EXCEPT ![s] = [r EXCEPT !.response = {resp}, !.pc = "L31"]]
       \/ \E f \in Faults : inv' = [inv EXCEPT ![s] = Raise(r, f, "generate")]
    /\ UNCHANGED <<environ, config, ncalls>>

\* line 31: return response.text
ReturnText(s) ==
    /\ inv[s].pc = "L31"
    /\ LET resp == The(inv[s].response) IN
       inv' = [inv EXCEPT ![s] =
                 IF resp.text # {}
                 THEN [@ EXCEPT !.ret = {ResultText(resp)}, !.pc = "done"]
                 ELSE Raise(@, The(resp.error), "text")]
    /\ UNCHANGED <<environ, config, ncalls>>

\* lines 33-34: except Exception as e: return f"Gemini API Error: {str(e)}".
\* A fault that is no instance of Exception is not caught and leaves
\* ask_gemini.
Except(s) ==
    /\ inv[s].pc = "L33"
    /\ LET f == The(inv[s].fault) IN
       inv' = [inv EXCEPT ![s] =
                 IF IsException(f)
                 THEN [@ EXCEPT !.ret = {ErrorString(f)}, !.pc = "done"]
                 ELSE [@ EXCEPT !.raised = {[cls |-> f.cls, desc |-> f.desc]},
                                !.pc = "done"]]
    /\ UNCHANGED <<environ, config, ncalls>>

\* The host process (or its launcher) sets, empties or unsets GEMINI_API_KEY.
SetEnv(v) ==
    /\ v # environ
    /\ environ' = v
    /\ UNCHANGED <<config, inv, ncalls>>

Step(s) ==
    \/ ReadEnv(s)
    \/ CheckKey(s)
    \/ Configure(s)
    \/ Construct(s)
    \/ Generate(s)
    \/ ReturnText(s)
    \/ Except(s)

\* Invocations may overlap: the host may call while another slot is running.
Next ==
    \/ \E s \in Slots, p \in Prompts : Call(s, p)
    \/ \E s \in Slots : Step(s)
    \/ \E v \in EnvValues : SetEnv(v)

Spec == Init /\ [][Next]_vars

\* The host serializes invocations: a call starts only when none is running.
SeqCall(s, p) ==
    /\ \A t \in Slots : ~Running(t)
    /\ Call(s, p)

SeqNext ==
    \/ \E s \in Slots, p \in Prompts : SeqCall(s, p)
    \/ \E s \in Slots : Step(s)
    \/ \E v \in EnvValues : SetEnv(v)

SeqSpec == Init /\ [][SeqNext]_vars

\* ---------------------------------------------------------------- claims
Done(r) == r.pc = "done"

\* The credential the invocation read is None or the empty string.
KeyMissing(r) == r.api_key = {} \/ r.api_key = {""}

StartsWith(str, p) == Len(str) >= Len(p) /\ SubSeq(str, 1, Len(p)) = p

\* What a caller's prefix match classifies as a failure.
FailPrefixed(str) == StartsWith(str, "Error:") \/ StartsWith(str, "Gemini API Error:")

\* The terminal states of an invocation.
CredentialMissing(r) == Done(r) /\ KeyMissing(r) /\ r.calls = 0
Success(r) == Done(r) /\ r.fault = {} /\ r.response # {}
Failure(r) == Done(r) /\ r.fault # {}

\* C1: an invocation that read an unset or empty GEMINI_API_KEY returns the
\* missing-credential string and enters no provider step: no configure, no
\* model construction, no generate_content (its provider call count stays 0).
C1_MissingCredentialNoCall ==
    \A s \in Slots :
        LET r == inv[s] IN
        (r.id > 0 /\ r.pc # "L18" /\ KeyMissing(r)) =>
            /\ r.pc \in {"L19", "done"}
            /\ r.calls = 0 /\ r.gen = 0 /\ r.req = {} /\ r.model = {}
            /\ r.fault = {} /\ r.raised = {}
            /\ Done(r) => r.ret = {"Error: GEMINI_API_KEY environment variable not found."}

\* Both an unset and an empty key have been answered, with the provider
\* configured by nobody.
C1_Witness ==
    /\ Done(inv["t1"]) /\ inv["t1"].api_key = {} /\ inv["t1"].ret # {}
    /\ Done(inv["t2"]) /\ inv["t2"].api_key = {""} /\ inv["t2"].ret # {}
    /\ config = {}

\* C2: with a credential present and no fault raised, the invocation returns
\* exactly the text of the provider's response.
C2_SuccessReturnsText ==
    \A s \in Slots :
        LET r == inv[s] IN
        (Done(r) /\ ~KeyMissing(r) /\ r.fault = {}) =>
            /\ r.response # {}
            /\ r.ret = The(r.response).text
            /\ r.raised = {}

C2_Witness ==
    \E s \in Slots :
        /\ Done(inv[s]) /\ inv[s].prompt = "2+2?" /\ inv[s].fault = {}
        /\ inv[s].response = {[text |-> {"4"}, error |-> {}]}
        /\ inv[s].ret = {"4"}

C5_Expected(r) ==
    IF KeyMissing(r)
    THEN [ret |-> {"Error: GEMINI_API_KEY environment variable not found."}, raised |-> {}]
    ELSE IF r.fault # {}
    THEN IF The(r.fault).cls \in {"TimeoutError", "ValueError"}
         THEN [ret |-> {"Gemini API Error: " \o The(r.fault).desc}, raised |-> {}]
         ELSE [ret |-> {}, raised |-> {[cls |-> The(r.fault).cls, desc |-> The(r.fault).desc]}]
    ELSE [ret |-> The(r.response).text, raised |-> {}]

\* C5: in a sequence of invocations, each one's request carries the key that
\* invocation read (never one configured by an earlier call), its result is
\* determined by its prompt, the key it read and the provider's reply, and two
\* invocations with equal inputs and equal replies have equal results.
C5_HistoryIndependent ==
    /\ \A s \in Slots :
          LET r == inv[s] IN
          /\ r.req # {} => The(r.req).key = r.api_key
          /\ Done(r) => (r.ret = C5_Expected(r).ret /\ r.raised = C5_Expected(r).raised)
    /\ \A s, t \in Slots :
          (/\ Done(inv[s]) /\ Done(inv[t])
           /\ inv[s].prompt = inv[t].prompt
           /\ inv[s].api_key = inv[t].api_key
           /\ inv[s].fault = inv[t].fault
           /\ inv[s].response = inv[t].response)
          => (inv[s].ret = inv[t].ret /\ inv[s].raised = inv[t].raised)

\* A first call succeeded with key k1 (still configured process-wide); a later
\* call, made with the variable unset, got the missing-credential string.
C5_Witness ==
    \E s, t \in Slots :
        /\ s # t
        /\ Done(inv[s]) /\ inv[s].id = 1 /\ inv[s].ret = {"4"}
        /\ The(inv[s].req).key = {"k1"}
        /\ Done(inv[t]) /\ inv[t].id = 2 /\ inv[t].api_key = {}
        /\ inv[t].ret = {"Error: GEMINI_API_KEY environment variable not found."}
        /\ config = {"k1"}

\* C6: under any interleaving, the request of each invocation carries the key
\* that same invocation read.
C6_RequestUsesOwnKey ==
    \A s \in Slots :
        inv[s].req # {} => The(inv[s].req).key = inv[s].api_key

\* C7 as stated: the string returned for a missing credential is
\* "Error: GEMINI_API_KEY not found.".
C7_Original ==
    \A s \in Slots :
        (Done(inv[s]) /\ KeyMissing(inv[s])) =>
            inv[s].ret = {"Error: GEMINI_API_KEY not found."}

\* C7 amended: the string returned for a missing credential is
\* "Error: GEMINI_API_KEY environment variable not found.", for every prompt.
C7_MissingKeyLiteral ==
    \A s \in Slots :
        (Done(inv[s]) /\ KeyMissing(inv[s])) =>
            inv[s].ret = {"Error: GEMINI_API_KEY environment variable not found."}

C7_Witness ==
    \E s \in Slots :
        /\ Done(inv[s]) /\ inv[s].prompt = "Summarize: hi" /\ inv[s].api_key = {}
        /\ inv[s].ret = {"Error: GEMINI_API_KEY environment variable not found."}

C9_State(r) ==
    CASE r.pc = "idle" -> "NotCalled"
      [] r.pc \in {"L18", "L19"} -> "AwaitingCredential"
      [] r.pc = "L24" -> "CredentialPresent"
      [] r.pc \in {"L28", "L30", "L31", "L33"} -> "Invoking"
      [] CredentialMissing(r) -> "CredentialMissing"
      [] Success(r) -> "Success"
      [] Failure(r) -> "Failure"
      [] OTHER -> "None"

C9_Edges ==
    { <<"AwaitingCredential", "AwaitingCredential">>,
      <<"AwaitingCredential", "CredentialMissing">>,
      <<"AwaitingCredential", "CredentialPresent">>,
      <<"CredentialPresent", "Invoking">>,
      <<"Invoking", "Invoking">>,
      <<"Invoking", "Success">>,
      <<"Invoking", "Failure">> }

C9_StateInv ==
    \A s \in Slots :
        LET r == inv[s] IN
        /\ C9_State(r) # "None"
        /\ r.gen <= 1
        /\ r.calls > 0 => (r.api_key # {} /\ r.api_key # {""} /\ r.pc \notin {"L18", "L19"})
        /\ Done(r) =>
              Cardinality({b \in {<<1, CredentialMissing(r)>>, <<2, Success(r)>>,
                                  <<3, Failure(r)>>} : b[2]}) = 1

C9_StepOK ==
    \A s \in Slots :
        \/ inv'[s] = inv[s]
        \/ /\ inv'[s].id = inv[s].id
           /\ <<C9_State(inv[s]), C9_State(inv'[s])>> \in C9_Edges
           /\ inv'[s].gen >= inv[s].gen
        \/ /\ inv'[s].id # inv[s].id
           /\ C9_State(inv[s]) \in {"NotCalled", "CredentialMissing", "Success", "Failure"}
           /\ C9_State(inv'[s]) = "AwaitingCredential"

\* C9: every invocation moves along AwaitingCredential -> (CredentialMissing |
\* CredentialPresent -> Invoking -> (Success | Failure)); no provider step
\* precedes the credential check, a finished invocation is in exactly one
\* terminal state and never moves again, and it issues at most one
\* generate-content request.
C9_StateMachine == []C9_StateInv /\ [][C9_StepOK]_vars

\* All three terminal states, and a request that ended in a fault without a
\* second attempt.
C9_Witness ==
    \E s, t \in Slots :
        /\ s # t
        /\ Failure(inv[s]) /\ inv[s].gen = 1 /\ The(inv[s].fault).at = "generate"
        /\ CredentialMissing(inv[t]) /\ inv[t].id = 3

\* C10 as stated: a returned string begins with "Error:" or
\* "Gemini API Error:" exactly when the invocation ended in CredentialMissing or
\* Failure.
C10_Original ==
    \A s \in Slots :
        LET r == inv[s] IN
        (Done(r) /\ r.ret # {}) =>
            (FailPrefixed(The(r.ret)) <=> (CredentialMissing(r) \/ Failure(r)))

\* C10 amended: a string returned by an invocation that ended in
\* CredentialMissing or Failure begins with "Error:" or "Gemini API Error:";
\* a string returned by a successful invocation begins with one of them
\* exactly when the provider's text does.
C10_FailurePrefixed ==
    \A s \in Slots :
        LET r == inv[s] IN
        (Done(r) /\ r.ret # {}) =>
            /\ (CredentialMissing(r) \/ Failure(r)) => FailPrefixed(The(r.ret))
            /\ Success(r) =>
                  (FailPrefixed(The(r.ret)) <=> FailPrefixed(The(The(r.response).text)))

\* A failure string and a success string that a prefix match tells apart.
C10_Witness ==
    \E s, t \in Slots :
        /\ Failure(inv[s]) /\ inv[s].ret # {} /\ FailPrefixed(The(inv[s].ret))
        /\ Success(inv[t]) /\ inv[t].ret = {"4"} /\ ~FailPrefixed("4")
====
